---- MODULE Spec2Model ----
(***************************************************************************)
(* Entitlement-gated admission of simulation attempts (HIRED).             *)
(*                                                                         *)
(* The model follows the services of src/app/core/services:                *)
(*   AuthService / SupabaseService  - the current identity                 *)
(*   ProfileService.getUserPlan     - profile joined with its plan         *)
(*   SimulationService              - countUserAttemptsThisMonth,          *)
(*                                    startSimulation, getUserAttempts     *)
(* The Record Store (PostgREST tables profiles, plans,                     *)
(* simulation_attempts) answers each query in one step, with a row payload *)
(* (ok) or an error value; every round trip of a service call is a         *)
(* separate step, so calls interleave at the points where the code awaits  *)
(* the store.                                                              *)
(***************************************************************************)
EXTENDS Integers, Sequences, FiniteSets, TLC

\* ------------------------------------------------------------------ bounds
MaxLimit         == 3   \* largest finite max_simulations_per_month
MaxSeedCounted   == 3   \* non-abandoned attempts already stored at start
MaxSeedAbandoned == 2   \* abandoned attempts already stored at start
MaxTicks         == 1   \* clock ticks after the start instant
MaxEvents        == 3   \* session events of the Directory a subscriber logs
TicksPerMonth    == 2   \* instants distinguished inside one calendar month
MaxAttempts      == 2   \* stored attempts beyond which no simulation is started

\* ------------------------------------------------------- program constants
MonthsPerYear == 12

Users   == {"u1", "u2"}
Sims    == {"s1"}
\* two concurrent callers of the services (two tabs, a double submit); each
\* makes one service call at a time
Callers == {"tab1", "tab2"}
NULL    == "null"

\* AttemptStatus (simulation-attempt.model.ts)
AttemptStatus == {"in_progress", "completed", "timed_out", "abandoned"}

\* optional values: <<>> is null, <<x>> is the value x
None    == <<>>
Some(x) == <<x>>

\* ------------------------------------------------------------- error texts
NoUserMsg    == "No authenticated user"
ProfilesDownMsg == "profiles: store unavailable"
CountDownMsg    == "simulation_attempts count: store unavailable"
InsertDownMsg   == "simulation_attempts insert: store unavailable"
ListDownMsg     == "simulation_attempts select: store unavailable"
UpdateDownMsg   == "simulation_attempts update: store unavailable"
NoRowMsg     == "PGRST116"
TypeErrorMsg == "TypeError: plan is null"
RpcDownMsg       == "rpc recalculate_technical_scores failed"
RpcRejectMsg     == "Failed to fetch"
IncludesTypeErrorMsg == "TypeError: PLAN_FEATURES[slug]?.includes is not a function"
NoError      == ""

VARIABLES
  directory,    \* the session the Directory holds: user id or NULL
  session,      \* SupabaseService._session$ : user id or NULL
  bootstrap,    \* the getSession().then(...) of SupabaseService's constructor
  stream,       \* what a subscriber present since construction has seen
  currentUser,  \* AuthService._currentUser$ : user id or NULL
  now,          \* the clock, an instant since the epoch
  plans,        \* table plans: plan id -> row
  profiles,     \* table profiles: user id -> plan_id (or no row)
  attempts,     \* table simulation_attempts: sequence of rows, id = index
  calls         \* the service calls: caller -> call record

vars == <<directory, session, bootstrap, stream, currentUser, now, plans,
          profiles, attempts, calls>>

\* ------------------------------------------------------------------- dates
\* JS Date accessors on an instant t (UTC)
getUTCFullYear(t) == t \div (MonthsPerYear * TicksPerMonth)
getUTCMonth(t)    == (t \div TicksPerMonth) % MonthsPerYear

\* Date.UTC(year, month, 1): month may be 12 and then carries into the year
DateUTC(year, month) == (year * MonthsPerYear + month) * TicksPerMonth

\* Date.prototype.toISOString: <<year, month 1..12, offset inside the month>>
toISOString(t) == <<getUTCFullYear(t), getUTCMonth(t) + 1, t % TicksPerMonth>>

\* order of timestamptz values given as ISO strings
TsLt(a, b) ==
  \/ a[1] < b[1]
  \/ a[1] = b[1] /\ a[2] < b[2]
  \/ a[1] = b[1] /\ a[2] = b[2] /\ a[3] < b[3]
TsGte(a, b) == ~TsLt(a, b)

\* the bounds of the current UTC month, as countUserAttemptsThisMonth builds them
MonthStart(t) == toISOString(DateUTC(getUTCFullYear(t), getUTCMonth(t)))
MonthEnd(t)   == toISOString(DateUTC(getUTCFullYear(t), getUTCMonth(t) + 1))

\* the start instant: the last instant of December of year 0
StartInstant == MonthsPerYear * TicksPerMonth - 1

\* ------------------------------------------------- Identity Session Store
GetSessionDownMsg == "auth: directory unreachable"

\* the promise of the constructor's getSession(): pending, settled with
\* {data: {session}, error}, or finished (its callback has run, or it was
\* rejected and the callback never runs)
BootstrapPending == [pc |-> "pending", data |-> NULL, error |-> NoError]
BootstrapDone    == [pc |-> "done", data |-> NULL, error |-> NoError]

\* (mutant) a failed getSession answers with the session it has cached
GetSessionDataCached(outcome) == directory

\* data.session of getSession(): the session the Directory holds, null when
\* the Directory reports an error
GetSessionData(outcome) == IF outcome = "session" THEN directory ELSE NULL

\* isAuthenticated(): map((user) => user !== null)
isAuthenticated(user) == user # NULL

\* a subscriber of getCurrentUser() and isAuthenticated() since construction
\* first receives the initial value of the BehaviorSubject
Subscribed ==
  Some([events |-> <<>>, identity |-> <<NULL>>, auth |-> <<isAuthenticated(NULL)>>])

\* the subscriber (if any) is handed the values vals pushed into
\* _currentUser$, one by one; evs are the Directory events behind them
Observe(st, evs, vals) ==
  IF st = None THEN None
  ELSE Some([events   |-> st[1].events \o evs,
             identity |-> st[1].identity \o vals,
             auth     |-> st[1].auth \o
                            [i \in 1..Len(vals) |-> isAuthenticated(vals[i])]])

\* (mutant) when signOut reports an error logout re-emits the user of the
\* session the store still holds
LogoutEmitsSessionOnError(ok) == IF ok THEN <<NULL, NULL>> ELSE <<session>>

\* the values logout() makes _currentUser$ emit: the SIGNED_OUT event of a
\* successful signOut mirrored by the constructor, then _currentUser$.next(null)
LogoutEmits(ok) == IF ok THEN <<NULL, NULL>> ELSE <<NULL>>

\* what a CanActivateFn emits: true, or router.createUrlTree([path])
Activate      == [activate |-> TRUE, urlTree |-> NULL]
UrlTree(path) == [activate |-> FALSE, urlTree |-> path]

\* ------------------------------------------------------------ Record Store
\* plan ids of the plans table, and a plan_id that no plan row has
FreePlanId       == "free"
ProPlanId        == "pro"
EnterprisePlanId == "enterprise"
DanglingPlanId   == "ghost"
NoProfile        == "none"

\* rows of the plans table (plan.model.ts): the free tier has a finite quota,
\* the enterprise tier has max_simulations_per_month = null
PlanTable(limit) ==
  [free       |-> [name |-> "Free", slug |-> "free",
                   max_simulations_per_month |-> Some(limit)],
   pro        |-> [name |-> "Pro", slug |-> "pro",
                   max_simulations_per_month |-> Some(limit)],
   enterprise |-> [name |-> "Enterprise", slug |-> "enterprise",
                   max_simulations_per_month |-> None]]

\* a row of simulation_attempts (simulation-attempt.model.ts)
AttemptRow(id, uid, sim, status, started, completed, created) ==
  [id |-> id, user_id |-> uid, simulation_id |-> sim, status |-> status,
   answers |-> <<>>, started_at |-> started, completed_at |-> completed,
   duration_seconds |-> None, score |-> None, created_at |-> created]

\* rows already stored when the run starts: nOld completed rows of the
\* previous month, nCounted rows of status st created at the first instant of
\* the current month, nAbandoned abandoned rows created at that instant
SeedRows(uid, nOld, nCounted, st, nAbandoned) ==
  LET first == DateUTC(getUTCFullYear(StartInstant), getUTCMonth(StartInstant))
      old   == toISOString(first - 1)
      cur   == toISOString(first)
  IN  [i \in 1..(nOld + nCounted + nAbandoned) |->
        IF i <= nOld
          THEN AttemptRow(i, uid, "s1", "completed", old, Some(old), old)
        ELSE IF i <= nOld + nCounted
          THEN AttemptRow(i, uid, "s1", st, cur,
                          IF st = "in_progress" THEN None ELSE Some(cur), cur)
        ELSE AttemptRow(i, uid, "s1", "abandoned", cur, Some(cur), cur)]

\* (mutant) the embedded plan carries the quota that is left to the user
\* instead of the quota of the plan
ProfileSelectRemaining(uid, ok) ==
  IF ~ok THEN [data |-> None, error |-> ProfilesDownMsg]
  ELSE IF profiles[uid] = NoProfile THEN [data |-> None, error |-> NoRowMsg]
  ELSE [data  |-> Some([id      |-> uid,
                        plan_id |-> profiles[uid],
                        plan    |-> IF profiles[uid] \in DOMAIN plans
                                      THEN Some([plans[profiles[uid]] EXCEPT
                                        !.max_simulations_per_month =
                                          IF @ = None THEN None
                                          ELSE Some(@[1] - Cardinality(
                                            {i \in DOMAIN attempts :
                                               attempts[i].user_id = uid}))])
                                      ELSE None]),
        error |-> NoError]

\* profiles joined with plans, .eq('id', uid).single(): an embedded to-one
\* resource that has no row is returned as plan = null, not as an error
ProfileSelect(uid, ok) ==
  IF ~ok THEN [data |-> None, error |-> ProfilesDownMsg]
  ELSE IF profiles[uid] = NoProfile THEN [data |-> None, error |-> NoRowMsg]
  ELSE [data  |-> Some([id      |-> uid,
                        plan_id |-> profiles[uid],
                        plan    |-> IF profiles[uid] \in DOMAIN plans
                                      THEN Some(plans[profiles[uid]])
                                      ELSE None]),
        error |-> NoError]

\* (mutant) the status filter left out
CountFilterAnyStatus(row, uid, monthStart, monthEnd) ==
  /\ row.user_id = uid
  /\ TsGte(row.created_at, monthStart)
  /\ TsLt(row.created_at, monthEnd)

\* (mutant) the upper bound taken inclusive: .lte('created_at', monthEnd)
CountFilterInclusiveEnd(row, uid, monthStart, monthEnd) ==
  /\ row.user_id = uid
  /\ row.status # "abandoned"
  /\ TsGte(row.created_at, monthStart)
  /\ ~TsLt(monthEnd, row.created_at)

\* the filters of the count query of countUserAttemptsThisMonth
CountFilter(row, uid, monthStart, monthEnd) ==
  /\ row.user_id = uid
  /\ row.status # "abandoned"
  /\ TsGte(row.created_at, monthStart)
  /\ TsLt(row.created_at, monthEnd)

\* select('id', {count: 'exact', head: true}) with those filters
CountSelect(uid, monthStart, monthEnd, ok) ==
  IF ~ok THEN [count |-> None, error |-> CountDownMsg]
  ELSE [count |-> Some(Cardinality({i \in 1..Len(attempts) :
                         CountFilter(attempts[i], uid, monthStart, monthEnd)})),
        error |-> NoError]

\* the rows of getUserAttempts: .eq('user_id', uid)
ListSelect(uid, ok) ==
  IF ~ok THEN [data |-> None, error |-> ListDownMsg]
  ELSE [data  |-> Some({i \in 1..Len(attempts) : attempts[i].user_id = uid}),
        error |-> NoError]

\* ------------------------------------------------------------ service calls
\* SaveAttemptPayload values a caller submits
Answers   == {<<"a">>, <<"b">>}
Durations == {30}
SaveAttemptPayload == [answers : Answers, duration_seconds : Durations]

IdleCall ==
  [op |-> "none", pc |-> "idle", user |-> NULL, sim |-> NULL,
   profileWithPlan |-> None, countUser |-> NULL,
   monthStart |-> None, monthEnd |-> None, usedCount |-> None,
   logged |-> NoError, started_at |-> None,
   attemptId |-> None, payload |-> None, completed_at |-> None,
   feature |-> NULL, planUser |-> NULL, slug |-> NULL,
   result |-> [kind |-> "none"]]

\* results a call hands to its subscriber
Emit(v)      == [kind |-> "next", value |-> v]
Throw(msg)   == [kind |-> "Error", message |-> msg]
PlanLimitExceededError(used, limit, planName) ==
  [kind |-> "PlanLimitExceededError", used |-> used, limit |-> limit,
   planName |-> planName]

\* a call completes: its subscriber keeps the result; what the closures of the
\* call held is gone, what it logged stays
Done(call, result) ==
  [IdleCall EXCEPT !.op = call.op, !.pc = "done", !.user = call.user,
                   !.logged = call.logged, !.result = result]

\* map + catchError of countUserAttemptsThisMonth: the value it emits and the
\* message it logs
CountEmit(resp) ==
  IF resp.error # NoError THEN [value |-> 0, logged |-> resp.error]
  ELSE [value  |-> IF resp.count = None THEN 0 ELSE resp.count[1],
        logged |-> NoError]

\* switchMap of countUserAttemptsThisMonth with no user: throwError, which
\* its own catchError turns into the value 0
CountNoUser == [value |-> 0, logged |-> NoUserMsg]

\* (mutant) the comparison taken as usedCount > limit
LimitExceededStrict(limit, usedCount) ==
  limit # None /\ usedCount > limit[1]

\* step 3 of startSimulation: limit !== null && usedCount >= limit
LimitExceeded(limit, usedCount) ==
  limit # None /\ usedCount >= limit[1]

\* (mutant) the null check of step 3 left out: usedCount >= null compares
\* with 0, so a plan without quota rejects
DecideNullAsZero(call, emitted) ==
  LET plan    == call.profileWithPlan[1].plan
      counted == [call EXCEPT !.usedCount = Some(emitted.value),
                              !.logged = emitted.logged]
      limit   == IF plan[1].max_simulations_per_month = None THEN 0
                 ELSE plan[1].max_simulations_per_month[1]
  IN  IF plan = None THEN Done(counted, Throw(TypeErrorMsg))
      ELSE IF emitted.value >= limit
        THEN Done(counted,
                  PlanLimitExceededError(emitted.value, limit, plan[1].name))
      ELSE [counted EXCEPT !.pc = "insert",
                           !.started_at = Some(toISOString(now))]

\* steps 3 and 4 of startSimulation, once the count has been emitted
Decide(call, emitted) ==
  LET plan    == call.profileWithPlan[1].plan
      counted == [call EXCEPT !.usedCount = Some(emitted.value),
                              !.logged = emitted.logged]
  IN  IF plan = None THEN Done(counted, Throw(TypeErrorMsg))
      ELSE IF LimitExceeded(plan[1].max_simulations_per_month, emitted.value)
        THEN Done(counted,
                  PlanLimitExceededError(emitted.value,
                                         plan[1].max_simulations_per_month[1],
                                         plan[1].name))
      ELSE [counted EXCEPT !.pc = "insert",
                           !.started_at = Some(toISOString(now))]

\* countUserAttemptsThisMonth subscribed by a call: it reads the current user
\* at that moment; with no user it emits 0 at once, otherwise it issues the
\* count query with the bounds of the month of `now`
SubscribeCount(call) ==
  IF currentUser = NULL
    THEN IF call.op = "countUserAttemptsThisMonth"
           THEN Done([call EXCEPT !.usedCount = Some(CountNoUser.value),
                                  !.logged = CountNoUser.logged],
                     Emit(CountNoUser.value))
           ELSE Decide(call, CountNoUser)
    ELSE [call EXCEPT !.pc = "count", !.countUser = currentUser,
                      !.monthStart = Some(MonthStart(now)),
                      !.monthEnd = Some(MonthEnd(now))]

\* (mutant) catchError of countUserAttemptsThisMonth rethrows
AfterCountPropagating(call, resp) ==
  IF resp.error # NoError THEN Done(call, Throw(resp.error))
  ELSE IF call.op = "countUserAttemptsThisMonth"
    THEN Done([call EXCEPT !.usedCount = Some(CountEmit(resp).value),
                           !.logged = CountEmit(resp).logged],
              Emit(CountEmit(resp).value))
    ELSE Decide(call, CountEmit(resp))

\* the count query answered
AfterCount(call, resp) ==
  IF call.op = "countUserAttemptsThisMonth"
    THEN Done([call EXCEPT !.usedCount = Some(CountEmit(resp).value),
                           !.logged = CountEmit(resp).logged],
              Emit(CountEmit(resp).value))
    ELSE Decide(call, CountEmit(resp))

\* PlanFeature and PLAN_FEATURES (plan.model.ts)
PlanFeature == {"certificates", "ranking", "advanced_ai", "custom_tracks"}
PLAN_FEATURES ==
  [free       |-> {},
   pro        |-> {"certificates", "ranking"},
   enterprise |-> {"certificates", "ranking", "advanced_ai", "custom_tracks"}]

\* (mutant) every known tier unlocks every feature
hasPlanFeatureAnyTier(slug, feature) == slug \in DOMAIN PLAN_FEATURES

\* PLAN_FEATURES[slug]?.includes(feature) ?? false
hasPlanFeature(slug, feature) ==
  IF slug \in DOMAIN PLAN_FEATURES THEN feature \in PLAN_FEATURES[slug]
  ELSE FALSE

\* names every object literal inherits from Object.prototype
ObjectPrototypeKeys == {"constructor", "toString", "hasOwnProperty"}

\* PLAN_FEATURES[slug]: the array of the tier, a member inherited from
\* Object.prototype, or undefined
PlanFeaturesLookup(slug) ==
  IF slug \in DOMAIN PLAN_FEATURES
    THEN [kind |-> "array", items |-> PLAN_FEATURES[slug]]
  ELSE IF slug \in ObjectPrototypeKeys
    THEN [kind |-> "object", items |-> {}]
  ELSE [kind |-> "undefined", items |-> {}]

\* a call of hasPlanFeature: ?. stops at undefined only; on a value that has
\* no includes the call of includes throws
hasPlanFeatureCall(slug, feature) ==
  IF PlanFeaturesLookup(slug).kind = "object" THEN Throw(IncludesTypeErrorMsg)
  ELSE Emit(hasPlanFeature(slug, feature))

\* a guard call completes; requiredFeature belongs to the guard, not to the
\* call
GuardDone(call, result) == [Done(call, result) EXCEPT !.feature = call.feature]

\* (mutant) planGuard without its catchError
PlanGuardMapPropagating(call, resp) ==
  IF resp.error # NoError THEN GuardDone(call, Throw(resp.error))
  ELSE LET plan == resp.data[1].plan
       IN  IF plan # None /\ hasPlanFeature(plan[1].slug, call.feature)
             THEN GuardDone(call, Emit(Activate))
             ELSE GuardDone(call, Emit(UrlTree("/plans")))

\* map and catchError of planGuard on what getUserPlan emits
PlanGuardMap(call, resp) ==
  IF resp.error # NoError THEN GuardDone(call, Emit(UrlTree("/dashboard")))
  ELSE LET plan == resp.data[1].plan
       IN  IF plan # None /\ hasPlanFeature(plan[1].slug, call.feature)
             THEN GuardDone(call, Emit(Activate))
             ELSE GuardDone(call, Emit(UrlTree("/plans")))

\* the profile query of getUserPlan answered: map (error -> throw) and, for
\* startSimulation, the switchMap into countUserAttemptsThisMonth; for
\* planGuard, its map and catchError
AfterPlan(call, resp) ==
  IF call.op = "planGuard" THEN PlanGuardMap(call, resp)
  ELSE IF resp.error # NoError THEN Done(call, Throw(resp.error))
  ELSE IF call.op = "getUserPlan"
    THEN Done([call EXCEPT !.profileWithPlan = resp.data], Emit(resp.data[1]))
  ELSE SubscribeCount([call EXCEPT !.profileWithPlan = resp.data])

\* (mutant) the insert stores status 'completed'
InsertedRowCompleted(call) ==
  AttemptRow(Len(attempts) + 1, call.user, call.sim, "completed",
             call.started_at[1], None, toISOString(now))

\* the insert of startSimulation answered: the row the store creates
\* (created_at is the store's default, the time of the insert)
InsertedRow(call) ==
  AttemptRow(Len(attempts) + 1, call.user, call.sim, "in_progress",
             call.started_at[1], None, toISOString(now))

\* insert(...).select().single(): the row, or an error value
InsertSelect(call, ok) ==
  IF ~ok THEN [data |-> None, error |-> InsertDownMsg]
  ELSE [data |-> Some(InsertedRow(call)), error |-> NoError]

\* (mutant) the dbError check left out: data is returned as the attempt
AfterInsertIgnoringError(call, resp) ==
  Done(call, Emit(resp.data))

\* map of the insert: if (dbError) throw new Error(...); return data
AfterInsert(call, resp) ==
  IF resp.error # NoError THEN Done(call, Throw(resp.error))
  ELSE Done(call, Emit(resp.data[1]))

\* (mutant) the update also writes a score
UpdatedRowScoring(row, call) ==
  [row EXCEPT !.answers = call.payload[1].answers,
              !.duration_seconds = Some(call.payload[1].duration_seconds),
              !.status = "completed",
              !.completed_at = call.completed_at,
              !.score = Some(0)]

\* the columns saveAttempt writes: answers, duration_seconds, status,
\* completed_at
UpdatedRow(row, call) ==
  [row EXCEPT !.answers = call.payload[1].answers,
              !.duration_seconds = Some(call.payload[1].duration_seconds),
              !.status = "completed",
              !.completed_at = call.completed_at]

\* (mutant) the update marks the attempt abandoned
UpdateSelectAbandoning(call, ok) ==
  IF ~ok THEN [data |-> None, error |-> UpdateDownMsg]
  ELSE IF call.attemptId[1] \notin 1..Len(attempts)
    THEN [data |-> None, error |-> NoRowMsg]
  ELSE [data  |-> Some([UpdatedRow(attempts[call.attemptId[1]], call)
                          EXCEPT !.status = "abandoned"]),
        error |-> NoError]

\* update(...).eq('id', attemptId).select().single(): the updated row, an
\* error when no row has that id, or an error value of the store
UpdateSelect(call, ok) ==
  IF ~ok THEN [data |-> None, error |-> UpdateDownMsg]
  ELSE IF call.attemptId[1] \notin 1..Len(attempts)
    THEN [data |-> None, error |-> NoRowMsg]
  ELSE [data  |-> Some(UpdatedRow(attempts[call.attemptId[1]], call)),
        error |-> NoError]

\* map of saveAttempt: if (error) throw new Error(...); return data
AfterUpdate(call, resp) ==
  IF resp.error # NoError THEN Done(call, Throw(resp.error))
  ELSE Done(call, Emit(resp.data[1]))

\* _currentUser$ emits v: the switchMap of every getUserPlan that still waits
\* for its profile query drops that query; with a user it sends the query
\* again for that user, with null it throws 'No authenticated user'
UserEmits(v) ==
  [c \in Callers |->
     IF calls[c].pc # "plan" THEN calls[c]
     ELSE IF v = NULL
       THEN AfterPlan(calls[c], [data |-> None, error |-> NoUserMsg])
     ELSE [calls[c] EXCEPT !.planUser = v]]

\* ----------------------------------------------------------------- actions
\* a call is invoked: getCurrentUser().pipe(take(1), switchMap(user => ...))
Invoke(c, op, sim) ==
  /\ calls[c].pc = "idle"
  /\ calls' = [calls EXCEPT ![c] =
       LET call == [IdleCall EXCEPT !.op = op, !.user = currentUser, !.sim = sim]
       IN  IF op = "countUserAttemptsThisMonth" THEN SubscribeCount(call)
           ELSE IF currentUser = NULL THEN Done(call, Throw(NoUserMsg))
           ELSE IF op = "getUserAttempts" THEN [call EXCEPT !.pc = "list"]
           ELSE [call EXCEPT !.pc = "plan", !.planUser = currentUser]]
  /\ UNCHANGED <<directory, session, bootstrap, stream, currentUser, now, plans, profiles, attempts>>

StartSimulation(c, sim) == Invoke(c, "startSimulation", sim)

GetUserPlan(c) == Invoke(c, "getUserPlan", NULL)

CountUserAttemptsThisMonth(c) == Invoke(c, "countUserAttemptsThisMonth", NULL)

GetUserAttempts(c) == Invoke(c, "getUserAttempts", NULL)

\* the store answers the profile query of getUserPlan
PlanResponse(c, ok) ==
  /\ calls[c].pc = "plan"
  /\ calls' = [calls EXCEPT ![c] = AfterPlan(@, ProfileSelect(@.planUser, ok))]
  /\ UNCHANGED <<directory, session, bootstrap, stream, currentUser, now, plans, profiles, attempts>>

\* (mutant) startSimulation stores the attempt row together with its count
\* query, before the quota is tested
CountResponseReserving(c, ok) ==
  /\ calls[c].pc = "count"
  /\ calls' = [calls EXCEPT ![c] =
       AfterCount(@, CountSelect(@.countUser, @.monthStart[1], @.monthEnd[1],
                                ok))]
  /\ attempts' = IF calls[c].op = "startSimulation"
                   THEN Append(attempts,
                               AttemptRow(Len(attempts) + 1, calls[c].user,
                                          calls[c].sim, "in_progress",
                                          toISOString(now), None,
                                          toISOString(now)))
                   ELSE attempts
  /\ UNCHANGED <<directory, session, bootstrap, stream, currentUser, now, plans, profiles>>

\* the store answers the count query of countUserAttemptsThisMonth
CountResponse(c, ok) ==
  /\ calls[c].pc = "count"
  /\ calls' = [calls EXCEPT ![c] =
       AfterCount(@, CountSelect(@.countUser, @.monthStart[1], @.monthEnd[1],
                                ok))]
  /\ UNCHANGED <<directory, session, bootstrap, stream, currentUser, now, plans, profiles, attempts>>

\* the store answers the insert of startSimulation
InsertResponse(c, ok) ==
  /\ calls[c].pc = "insert"
  /\ calls' = [calls EXCEPT ![c] = AfterInsert(@, InsertSelect(@, ok))]
  /\ attempts' = IF ok THEN Append(attempts, InsertedRow(calls[c])) ELSE attempts
  /\ UNCHANGED <<directory, session, bootstrap, stream, currentUser, now, plans, profiles>>

\* the store answers the select of getUserAttempts
ListResponse(c, ok) ==
  /\ calls[c].pc = "list"
  /\ calls' = [calls EXCEPT ![c] =
       LET resp == ListSelect(@.user, ok)
       IN  IF resp.error # NoError THEN Done(@, Throw(resp.error))
           ELSE Done(@, Emit(resp.data[1]))]
  /\ UNCHANGED <<directory, session, bootstrap, stream, currentUser, now, plans, profiles, attempts>>

\* saveAttempt(attemptId, payload): the update is built and sent at once,
\* with completed_at = new Date(); the request is made with the session of
\* the current user
SaveAttempt(c, attemptId, payload) ==
  /\ calls[c].pc = "idle"
  /\ calls' = [calls EXCEPT ![c] =
       [IdleCall EXCEPT !.op = "saveAttempt", !.pc = "update",
                        !.user = currentUser,
                        !.attemptId = Some(attemptId),
                        !.payload = Some(payload),
                        !.completed_at = Some(toISOString(now))]]
  /\ UNCHANGED <<directory, session, bootstrap, stream, currentUser, now, plans, profiles, attempts>>

\* the store answers the update of saveAttempt
UpdateResponse(c, ok) ==
  /\ calls[c].pc = "update"
  /\ LET resp == UpdateSelect(calls[c], ok)
     IN  /\ calls' = [calls EXCEPT ![c] = AfterUpdate(@, resp)]
         /\ attempts' = IF resp.error = NoError
                          THEN [attempts EXCEPT ![calls[c].attemptId[1]] =
                                  resp.data[1]]
                          ELSE attempts
  /\ UNCHANGED <<directory, session, bootstrap, stream, currentUser, now, plans, profiles>>

\* planGuard(requiredFeature)(): getUserPlan().pipe(take(1), map, catchError);
\* with no user getUserPlan throws and catchError answers at once
PlanGuard(c, requiredFeature) ==
  /\ calls[c].pc = "idle"
  /\ calls' = [calls EXCEPT ![c] =
       LET call == [IdleCall EXCEPT !.op = "planGuard", !.user = currentUser,
                                    !.feature = requiredFeature]
       IN  IF currentUser = NULL
             THEN PlanGuardMap(call, [data |-> None, error |-> NoUserMsg])
             ELSE [call EXCEPT !.pc = "plan", !.planUser = currentUser]]
  /\ UNCHANGED <<directory, session, bootstrap, stream, currentUser, now,
                 plans, profiles, attempts>>

\* hasPlanFeature(slug, feature) called by some component
HasPlanFeature(c, slug, feature) ==
  /\ calls[c].pc = "idle"
  /\ calls' = [calls EXCEPT ![c] =
       [Done([IdleCall EXCEPT !.op = "hasPlanFeature"],
             hasPlanFeatureCall(slug, feature))
          EXCEPT !.slug = slug, !.feature = feature]]
  /\ UNCHANGED <<directory, session, bootstrap, stream, currentUser, now,
                 plans, profiles, attempts>>

\* the value a void observable emits
Undefined == "undefined"

\* map + catchError of refreshScoresAfterAttempt with the error of the inner
\* observable handed on to the subscriber
AfterRpcPropagating(call, outcome) ==
  IF outcome = "reject" THEN Done(call, Throw(RpcRejectMsg))
  ELSE IF outcome = "error"
    THEN Done([call EXCEPT !.logged = RpcDownMsg], Emit(Undefined))
  ELSE Done(call, Emit(Undefined))

\* map + catchError of refreshScoresAfterAttempt: an error in the response is
\* warned about, a failed observable is logged and replaced by [undefined]
AfterRpc(call, outcome) ==
  IF outcome = "reject"
    THEN Done([call EXCEPT !.logged = RpcRejectMsg], Emit(Undefined))
  ELSE IF outcome = "error"
    THEN Done([call EXCEPT !.logged = RpcDownMsg], Emit(Undefined))
  ELSE Done(call, Emit(Undefined))

\* refreshScoresAfterAttempt(): take(1) of the current user, then the rpc
RefreshScoresAfterAttempt(c) ==
  /\ calls[c].pc = "idle"
  /\ calls' = [calls EXCEPT ![c] =
       LET call == [IdleCall EXCEPT !.op = "refreshScoresAfterAttempt",
                                    !.user = currentUser]
       IN  IF currentUser = NULL
             THEN Done([call EXCEPT !.logged = NoUserMsg], Emit(Undefined))
           ELSE [call EXCEPT !.pc = "rpc"]]
  /\ UNCHANGED <<directory, session, bootstrap, stream, currentUser, now,
                 plans, profiles, attempts>>

\* the rpc recalculate_technical_scores answers: without error, with an error
\* in the response, or its promise rejects; it recomputes scores from the
\* attempts and writes none of them
RpcResponse(c, outcome) ==
  /\ calls[c].pc = "rpc"
  /\ calls' = [calls EXCEPT ![c] = AfterRpc(@, outcome)]
  /\ UNCHANGED <<directory, session, bootstrap, stream, currentUser, now,
                 plans, profiles, attempts>>

\* the subscriber of a finished call is gone; the caller is free to make its
\* next call (every call of a service method builds a new cold observable)
Forget(c) ==
  /\ calls[c].pc = "done"
  /\ calls' = [calls EXCEPT ![c] = IdleCall]
  /\ UNCHANGED <<directory, session, bootstrap, stream, currentUser, now,
                 plans, profiles, attempts>>

\* a JavaScript condition on number | null: null and 0 are falsy
Truthy(limit) == limit # None /\ limit[1] # 0

\* Math.round(x / y * 100) for x >= 0, y > 0: halves round up
RoundPercent(x, y) == (200 * x + y) \div (2 * y)

Min(a, b) == IF a <= b THEN a ELSE b

\* usagePercent of the dashboard view-model
usagePercent(limit, attemptsThisMonth) ==
  IF Truthy(limit) THEN Min(100, RoundPercent(attemptsThisMonth, limit[1]))
  ELSE 0

\* usageLabel of the dashboard view-model, `${used} / ${limit}` or
\* `${used} / ∞`: the pair it renders, None standing for the sign ∞
usageLabel(limit, attemptsThisMonth) ==
  [used |-> attemptsThisMonth,
   of   |-> IF Truthy(limit) THEN limit ELSE None]

\* the map of vm$: the view-model, or null (None) when the user is missing,
\* a source stream failed or profile.plan is null (catchError -> of(null))
DashboardVM(user, profileResp, attemptsThisMonth) ==
  IF user = NULL \/ profileResp.error # NoError THEN None
  ELSE IF profileResp.data[1].plan = None THEN None
  ELSE LET limit == profileResp.data[1].plan[1].max_simulations_per_month
       IN  Some([profile           |-> profileResp.data[1],
                 attemptsThisMonth |-> attemptsThisMonth,
                 usagePercent      |-> usagePercent(limit, attemptsThisMonth),
                 usageLabel        |-> usageLabel(limit, attemptsThisMonth)])

\* ngOnInit of the dashboard, its streams answered: combineLatest of the
\* current user, getUserPlan and countUserAttemptsThisMonth (count failures
\* degrade to 0), mapped to the view-model
DashboardLoad(c, ok) ==
  /\ calls[c].pc = "idle"
  /\ calls' = [calls EXCEPT ![c] =
       LET call == [IdleCall EXCEPT !.op = "dashboard", !.user = currentUser]
       IN  Done(call,
                Emit(DashboardVM(currentUser,
                       IF currentUser = NULL
                         THEN [data |-> None, error |-> NoUserMsg]
                         ELSE ProfileSelect(currentUser, TRUE),
                       IF currentUser = NULL THEN CountNoUser.value
                       ELSE CountEmit(CountSelect(currentUser, MonthStart(now),
                                                  MonthEnd(now), ok)).value)))]
  /\ UNCHANGED <<directory, session, bootstrap, stream, currentUser, now,
                 plans, profiles, attempts>>

\* the getSession() of the constructor settles
GetSessionSettle(outcome) ==
  /\ bootstrap.pc = "pending"
  /\ bootstrap' =
       IF outcome = "reject"
         THEN [pc |-> "done", data |-> NULL, error |-> GetSessionDownMsg]
         ELSE [pc |-> "settled", data |-> GetSessionData(outcome),
               error |-> IF outcome = "session" THEN NoError
                         ELSE GetSessionDownMsg]
  /\ UNCHANGED <<directory, session, stream, currentUser, now, plans, profiles,
                 attempts, calls>>

\* .then(({ data }) => this._session$.next(data.session)), mirrored into
\* _currentUser$ by the subscription of AuthService's constructor
GetSessionThen ==
  /\ bootstrap.pc = "settled"
  /\ bootstrap' = [bootstrap EXCEPT !.pc = "done"]
  /\ session' = bootstrap.data
  /\ currentUser' = session'
  /\ stream' = Observe(stream, <<>>, <<currentUser'>>)
  /\ calls' = UserEmits(currentUser')
  /\ UNCHANGED <<directory, now, plans, profiles, attempts>>

\* a session event of the Directory: onAuthStateChange pushes the session
\* into _session$, mirrored into _currentUser$
AuthStateChange(s) ==
  /\ stream # None => Len(stream[1].events) < MaxEvents
  /\ directory' = s
  /\ session' = s
  /\ currentUser' = session'
  /\ stream' = Observe(stream, <<s>>, <<currentUser'>>)
  /\ calls' = UserEmits(currentUser')
  /\ UNCHANGED <<bootstrap, now, plans, profiles, attempts>>

\* logout(): signOut (ok: the Directory drops the session and emits
\* SIGNED_OUT before signOut returns), then _currentUser$.next(null),
\* whatever signOut reported
Logout(ok) ==
  /\ currentUser # NULL
  /\ stream # None => Len(stream[1].events) < MaxEvents
  /\ directory' = IF ok THEN NULL ELSE directory
  /\ session' = IF ok THEN NULL ELSE session
  /\ currentUser' = IF LogoutEmits(ok) = <<>> THEN currentUser
                    ELSE LogoutEmits(ok)[Len(LogoutEmits(ok))]
  /\ stream' = Observe(stream, IF ok THEN <<NULL>> ELSE <<>>, LogoutEmits(ok))
  /\ calls' = IF LogoutEmits(ok) = <<>> THEN calls ELSE UserEmits(currentUser')
  /\ UNCHANGED <<bootstrap, now, plans, profiles, attempts>>

\* authGuard: isAuthenticated().pipe(take(1), map(...)) completes at once
\* with the current value of _currentUser$
AuthGuard(c) ==
  /\ calls[c].pc = "idle"
  /\ calls' = [calls EXCEPT ![c] =
       Done([IdleCall EXCEPT !.op = "authGuard", !.user = currentUser],
            IF isAuthenticated(currentUser) THEN Emit(Activate)
            ELSE Emit(UrlTree("/auth/login")))]
  /\ UNCHANGED <<directory, session, bootstrap, stream, currentUser, now,
                 plans, profiles, attempts>>

\* the clock advances
Tick ==
  /\ now < StartInstant + MaxTicks
  /\ now' = now + 1
  /\ UNCHANGED <<directory, session, bootstrap, stream, currentUser, plans, profiles, attempts, calls>>

\* ------------------------------------------------------------ specification
SeedStatus == {"completed", "timed_out", "in_progress"}

\* what the Record Store holds at the start: the plan of u1 (u2 is on the
\* free plan), the quota of the free plan, and the attempts u1 already has
\*   - usage at the quota or one below it, for every quota
\*   - every status of the stored attempts, with abandoned ones beside them
\*   - every other state of the profile of u1, with and without usage
QuotaScenarios ==
  {sc \in [plan : {FreePlanId}, limit : 0..MaxLimit, nCounted : 0..MaxSeedCounted,
           st : {"completed"}, nAbandoned : {0}] :
     sc.nCounted \in {sc.limit - 1, sc.limit}}

StatusScenarios ==
  [plan : {FreePlanId}, limit : {MaxLimit}, nCounted : {MaxSeedCounted},
   st : SeedStatus, nAbandoned : 1..MaxSeedAbandoned]

PlanScenarios ==
  [plan : {EnterprisePlanId, DanglingPlanId, NoProfile}, limit : {MaxLimit},
   nCounted : {0, MaxSeedCounted}, st : {"completed"}, nAbandoned : {0}]

Scenarios == QuotaScenarios \cup StatusScenarios \cup PlanScenarios

InitStore(sc) ==
  /\ plans = PlanTable(sc.limit)
  /\ profiles = [u \in Users |-> IF u = "u1" THEN sc.plan ELSE FreePlanId]
  /\ attempts = SeedRows("u1", 0, sc.nCounted, sc.st, sc.nAbandoned)

\* the session was loaded before the run starts and nobody logs the stream
SessionLoaded ==
  /\ directory = currentUser
  /\ session = currentUser
  /\ bootstrap = BootstrapDone
  /\ stream = None

Init ==
  /\ currentUser = NULL
  /\ SessionLoaded
  /\ now = StartInstant
  /\ \E sc \in Scenarios : InitStore(sc)
  /\ calls = [c \in Callers |-> IdleCall]

Next ==
  \/ \E c \in Callers, sim \in Sims : StartSimulation(c, sim)
  \/ \E c \in Callers : GetUserPlan(c)
  \/ \E c \in Callers : CountUserAttemptsThisMonth(c)
  \/ \E c \in Callers : GetUserAttempts(c)
  \/ \E c \in Callers, ok \in BOOLEAN : PlanResponse(c, ok)
  \/ \E c \in Callers, ok \in BOOLEAN : CountResponse(c, ok)
  \/ \E c \in Callers, ok \in BOOLEAN : InsertResponse(c, ok)
  \/ \E c \in Callers, ok \in BOOLEAN : ListResponse(c, ok)
  \/ \E s \in Users \cup {NULL} : AuthStateChange(s)
  \/ \E ok \in BOOLEAN : Logout(ok)
  \/ Tick

Spec == Init /\ [][Next]_vars

\* the admission race: u1 is signed in on a plan with a finite quota, its
\* usage of the month is one below the quota, the store answers every query,
\* and each of the two callers starts one simulation
InitRace ==
  /\ currentUser = "u1"
  /\ SessionLoaded
  /\ now = StartInstant
  /\ \E limit \in 1..MaxLimit, st \in SeedStatus, nAbandoned \in 0..MaxSeedAbandoned :
       InitStore([plan |-> FreePlanId, limit |-> limit, nCounted |-> limit - 1,
                  st |-> st, nAbandoned |-> nAbandoned])
  /\ calls = [c \in Callers |-> IdleCall]

NextRace ==
  \/ \E c \in Callers, sim \in Sims : StartSimulation(c, sim)
  \/ \E c \in Callers : PlanResponse(c, TRUE)
  \/ \E c \in Callers : CountResponse(c, TRUE)
  \/ \E c \in Callers : InsertResponse(c, TRUE)

SpecRace == InitRace /\ [][NextRace]_vars

\* the attempt lifecycle: one identity is signed in on the free plan, u1 has
\* stored attempts of every status, and each caller starts a simulation or
\* submits an attempt (a stored one, one just created, or an unknown id)
InitSubmit ==
  /\ currentUser \in Users
  /\ SessionLoaded
  /\ now = StartInstant
  /\ \E st \in SeedStatus, nAbandoned \in 0..1 :
       InitStore([plan |-> FreePlanId, limit |-> MaxLimit, nCounted |-> 1,
                  st |-> st, nAbandoned |-> nAbandoned])
  /\ calls = [c \in Callers |-> IdleCall]

NextSubmit ==
  \/ \E c \in Callers, sim \in Sims : StartSimulation(c, sim)
  \/ \E c \in Callers : PlanResponse(c, TRUE)
  \/ \E c \in Callers : CountResponse(c, TRUE)
  \/ \E c \in Callers, ok \in BOOLEAN : InsertResponse(c, ok)
  \/ \E c \in Callers, id \in 1..(Len(attempts) + 1),
        payload \in SaveAttemptPayload : SaveAttempt(c, id, payload)
  \/ \E c \in Callers, ok \in BOOLEAN : UpdateResponse(c, ok)
  \/ \E s \in Users : AuthStateChange(s)
  \/ Tick

SpecSubmit == InitSubmit /\ [][NextSubmit]_vars

\* the Identity Session Store from construction: the Directory holds a
\* persisted session or none, getSession() is pending, both BehaviorSubjects
\* hold null, and a subscriber logs the stream; route guards run at any time
InitSession ==
  /\ directory \in Users \cup {NULL}
  /\ session = NULL
  /\ currentUser = NULL
  /\ bootstrap = BootstrapPending
  /\ stream = Subscribed
  /\ now = StartInstant
  /\ InitStore([plan |-> FreePlanId, limit |-> MaxLimit, nCounted |-> 0,
                st |-> "completed", nAbandoned |-> 0])
  /\ calls = [c \in Callers |-> IdleCall]

NextSession ==
  \/ \E outcome \in {"session", "error", "reject"} : GetSessionSettle(outcome)
  \/ GetSessionThen
  \/ \E s \in Users \cup {NULL} : AuthStateChange(s)
  \/ \E ok \in BOOLEAN : Logout(ok)
  \/ \E c \in Callers : AuthGuard(c)

SpecSession == InitSession /\ [][NextSession]_vars

\* the feature gate: u1 is on any plan, has a plan_id without plan or has no
\* profile, u2 is on the free plan; each caller runs one guard
InitGuard ==
  /\ currentUser \in Users \cup {NULL}
  /\ SessionLoaded
  /\ now = StartInstant
  /\ \E plan \in {FreePlanId, ProPlanId, EnterprisePlanId, DanglingPlanId,
                   NoProfile} :
       InitStore([plan |-> plan, limit |-> MaxLimit, nCounted |-> 0,
                  st |-> "completed", nAbandoned |-> 0])
  /\ calls = [c \in Callers |-> IdleCall]

NextGuard ==
  \/ \E c \in Callers, f \in PlanFeature : PlanGuard(c, f)
  \/ \E c \in Callers, ok \in BOOLEAN : PlanResponse(c, ok)
  \/ \E s \in Users \cup {NULL} : AuthStateChange(s)

SpecGuard == InitGuard /\ [][NextGuard]_vars

\* hasPlanFeature on every argument a caller can pass at run time: the
\* slugs of the three tiers, a slug of no tier, names that object literals
\* inherit; the feature keys and a key that is none
SlugInputs    == DOMAIN PLAN_FEATURES \cup {"basic"} \cup ObjectPrototypeKeys
FeatureInputs == PlanFeature \cup {"unknown_feature"}

InitFeature ==
  /\ currentUser = NULL
  /\ SessionLoaded
  /\ now = StartInstant
  /\ InitStore([plan |-> FreePlanId, limit |-> MaxLimit, nCounted |-> 0,
                st |-> "completed", nAbandoned |-> 0])
  /\ calls = [c \in Callers |-> IdleCall]

NextFeature ==
  \E c \in Callers, slug \in SlugInputs, feature \in FeatureInputs :
    HasPlanFeature(c, slug, feature)

SpecFeature == InitFeature /\ [][NextFeature]_vars

\* the recalculation request: an identity or none is signed in, attempts of
\* every status are stored, callers submit attempts and ask for recalculation
InitScores ==
  /\ currentUser \in Users \cup {NULL}
  /\ SessionLoaded
  /\ now = StartInstant
  /\ \E st \in SeedStatus :
       InitStore([plan |-> FreePlanId, limit |-> MaxLimit, nCounted |-> 1,
                  st |-> st, nAbandoned |-> 1])
  /\ calls = [c \in Callers |-> IdleCall]

NextScores ==
  \/ \E c \in Callers : RefreshScoresAfterAttempt(c)
  \/ \E c \in Callers, outcome \in {"ok", "error", "reject"} :
       RpcResponse(c, outcome)
  \/ \E c \in Callers, id \in 1..Len(attempts),
        payload \in SaveAttemptPayload : SaveAttempt(c, id, payload)
  \/ \E c \in Callers, ok \in BOOLEAN : UpdateResponse(c, ok)
  \/ \E s \in Users : AuthStateChange(s)
  \/ Logout(TRUE)

SpecScores == InitScores /\ [][NextScores]_vars

\* plan resolution among other calls: u1 is on the pro plan, u2 on the free
\* plan, no attempt is stored; callers resolve the plan, start simulations,
\* submit attempts and count, one call after another, while the signed-in
\* identity changes; nothing writes profiles or plans
InitResolve ==
  /\ currentUser \in Users
  /\ SessionLoaded
  /\ now = StartInstant
  /\ InitStore([plan |-> ProPlanId, limit |-> MaxLimit, nCounted |-> 0,
                st |-> "completed", nAbandoned |-> 0])
  /\ calls = [c \in Callers |-> IdleCall]

NextResolve ==
  \/ \E c \in Callers : GetUserPlan(c)
  \/ \E c \in Callers, sim \in Sims :
       Len(attempts) < MaxAttempts /\ StartSimulation(c, sim)
  \/ \E c \in Callers : CountUserAttemptsThisMonth(c)
  \/ \E c \in Callers : PlanResponse(c, TRUE)
  \/ \E c \in Callers : CountResponse(c, TRUE)
  \/ \E c \in Callers : InsertResponse(c, TRUE)
  \/ \E c \in Callers, id \in 1..Len(attempts) :
       SaveAttempt(c, id, [answers |-> <<"a">>, duration_seconds |-> 30])
  \/ \E c \in Callers : UpdateResponse(c, TRUE)
  \/ \E c \in Callers : Forget(c)
  \/ \E s \in Users : AuthStateChange(s)

SpecResolve == InitResolve /\ [][NextResolve]_vars

\* no call is in flight
Quiescent == \A c \in Callers : calls[c].pc \in {"idle", "done"}

\* admission one call at a time: an identity on the free plan is signed in,
\* u1 has used part or all of its quota; a simulation is started only when
\* no other call is in flight, every query is answered without error, and
\* nothing but startSimulation writes attempts; the signed-in identity
\* changes and the clock advances at any moment
InitAdmit ==
  /\ currentUser \in Users
  /\ SessionLoaded
  /\ now = StartInstant
  /\ \E limit \in 1..MaxLimit, nCounted \in 0..MaxLimit :
       /\ nCounted <= limit
       /\ InitStore([plan |-> FreePlanId, limit |-> limit,
                     nCounted |-> nCounted, st |-> "completed",
                     nAbandoned |-> 0])
  /\ calls = [c \in Callers |-> IdleCall]

NextAdmit ==
  \/ \E c \in Callers, sim \in Sims :
       /\ Quiescent
       /\ Len(attempts) < MaxLimit + MaxAttempts
       /\ StartSimulation(c, sim)
  \/ \E c \in Callers : PlanResponse(c, TRUE)
  \/ \E c \in Callers : CountResponse(c, TRUE)
  \/ \E c \in Callers : InsertResponse(c, TRUE)
  \/ \E c \in Callers : Forget(c)
  \/ \E s \in Users : AuthStateChange(s)
  \/ Tick

SpecAdmit == InitAdmit /\ [][NextAdmit]_vars

\* the dashboard beside the admission gate: an identity is signed in, u1 is
\* on a plan with quota 0..MaxLimit or on the plan without quota and has
\* stored attempts; callers load the dashboard and start simulations
InitDashboard ==
  /\ currentUser \in Users
  /\ SessionLoaded
  /\ now = StartInstant
  /\ \E plan \in {FreePlanId, EnterprisePlanId}, limit \in 0..MaxLimit,
        nCounted \in 0..MaxSeedCounted :
       InitStore([plan |-> plan, limit |-> limit, nCounted |-> nCounted,
                  st |-> "completed", nAbandoned |-> 0])
  /\ calls = [c \in Callers |-> IdleCall]

NextDashboard ==
  \/ \E c \in Callers, ok \in BOOLEAN : DashboardLoad(c, ok)
  \/ \E c \in Callers, sim \in Sims : StartSimulation(c, sim)
  \/ \E c \in Callers : PlanResponse(c, TRUE)
  \/ \E c \in Callers : CountResponse(c, TRUE)
  \/ \E c \in Callers : InsertResponse(c, TRUE)
  \/ Tick

SpecDashboard == InitDashboard /\ [][NextDashboard]_vars

\* ------------------------------------------------------------------ claims
\* what the claims call the usage of an identity in a period: its attempts of
\* status in_progress, completed or timed_out created in the calendar month
\* (year, month) of the ISO timestamp `at`
CountedStatus == {"in_progress", "completed", "timed_out"}

Usage(uid, at) ==
  Cardinality({i \in 1..Len(attempts) :
                 /\ attempts[i].user_id = uid
                 /\ attempts[i].status \in CountedStatus
                 /\ attempts[i].created_at[1] = at[1]
                 /\ attempts[i].created_at[2] = at[2]})

Admitted(c) == calls[c].pc = "done" /\ calls[c].result.kind = "next"
Rejected(c) ==
  calls[c].pc = "done" /\ calls[c].result.kind = "PlanLimitExceededError"

\* C1: when two startSimulation calls run concurrently for an identity whose
\* usage is one below its finite quota, exactly one of them succeeds and the
\* other fails with PlanLimitExceededError
C1_RaceExactlyOneAdmitted ==
  (\A c \in Callers : calls[c].pc = "done") =>
    \E c1, c2 \in Callers : c1 # c2 /\ Admitted(c1) /\ Rejected(c2)

\* the plan a startSimulation call resolved, and its quota
HasPlan(call)     == call.profileWithPlan # None /\ call.profileWithPlan[1].plan # None
PlanOf(call)      == call.profileWithPlan[1].plan[1]
FiniteLimit(call) == HasPlan(call) /\ PlanOf(call).max_simulations_per_month # None
LimitOf(call)     == PlanOf(call).max_simulations_per_month[1]
IsStart(c)        == calls[c].op = "startSimulation"

\* the count of call c is emitted in this step
CountStep(c) == calls[c].pc = "count" /\ calls'[c].pc # "count"

Unlimited(uid) ==
  /\ uid # NULL
  /\ profiles[uid] \in DOMAIN plans
  /\ plans[profiles[uid]].max_simulations_per_month = None

C4_DecisionRule ==
  [][\A c \in Callers :
       IsStart(c) =>
         /\ (CountStep(c) /\ FiniteLimit(calls[c])) =>
              \/ calls'[c].pc = "insert"
              \/ calls'[c].result.kind = "PlanLimitExceededError"
         /\ (calls[c].pc # "insert" /\ calls'[c].pc = "insert"
             /\ FiniteLimit(calls'[c])) =>
              calls'[c].usedCount[1] < LimitOf(calls'[c])
         /\ (calls[c].pc \in {"plan", "count"}
             /\ calls'[c].result.kind = "PlanLimitExceededError") =>
              /\ calls'[c].result.used >= calls'[c].result.limit
              /\ calls'[c].result.limit =
                   plans[profiles[calls[c].user]].max_simulations_per_month[1]
         /\ (attempts' # attempts /\ calls'[c] # calls[c]) =>
              (FiniteLimit(calls[c]) =>
                 calls[c].usedCount[1] < LimitOf(calls[c]))]_vars

\* a quota of 0 rejected the request of an identity that has no attempt
C4_Witness ==
  \E c \in Callers :
    /\ IsStart(c) /\ Rejected(c) /\ calls[c].logged = NoError
    /\ calls[c].result.limit = 0 /\ calls[c].result.used = 0

\* the count a call was given, where the state shows it: the usedCount of a
\* startSimulation call that went on or was rejected, the value emitted by
\* countUserAttemptsThisMonth
CountVisible(call) ==
  \/ call.pc = "insert"
  \/ call.pc = "done" /\ call.result.kind = "PlanLimitExceededError"
  \/ /\ call.pc = "done" /\ call.op = "countUserAttemptsThisMonth"
     /\ call.result.kind = "next"
CountSeen(call) ==
  IF call.pc = "insert" THEN call.usedCount[1]
  ELSE IF call.result.kind = "PlanLimitExceededError" THEN call.result.used
  ELSE call.result.value

C6_HalfOpenCalendarMonth ==
  [][\A c \in Callers :
       /\ (calls[c].pc # "count" /\ calls'[c].pc = "count") =>
            LET t == toISOString(now)
            IN  /\ calls'[c].monthStart = Some(<<t[1], t[2], 0>>)
                /\ calls'[c].monthEnd =
                     Some(IF t[2] = MonthsPerYear THEN <<t[1] + 1, 1, 0>>
                          ELSE <<t[1], t[2] + 1, 0>>)
       /\ (CountResponse(c, TRUE) /\ CountVisible(calls'[c])) =>
            CountSeen(calls'[c]) =
              Usage(calls[c].countUser, calls[c].monthStart[1])]_vars

\* a count taken in January counted the attempt created at the first instant
\* of January and none of the identity's December attempts, one of which was
\* created at the first instant of December
C6_Witness ==
  \E c \in Callers :
    /\ calls[c].pc = "insert" /\ calls[c].logged = NoError
    /\ calls[c].monthStart = Some(MonthStart(StartInstant + 1))
    /\ calls[c].monthStart[1][2] = 1
    /\ calls[c].usedCount = Some(1)
    /\ \E i \in 1..Len(attempts) :
         /\ attempts[i].user_id = calls[c].countUser
         /\ attempts[i].status \in CountedStatus
         /\ attempts[i].created_at = calls[c].monthStart[1]
    /\ \E i \in 1..Len(attempts) :
         /\ attempts[i].user_id = calls[c].countUser
         /\ attempts[i].status \in CountedStatus
         /\ attempts[i].created_at = MonthStart(StartInstant)

\* C7: the attempts change only by a row that a successful insert of
\* startSimulation appends and returns; when the insert fails the call ends
\* with an error, returns no attempt and leaves the attempts as they were
C7_InsertFailurePropagates ==
  [][/\ \A c \in Callers :
          InsertResponse(c, FALSE) =>
            /\ attempts' = attempts
            /\ calls'[c].pc = "done"
            /\ calls'[c].result.kind = "Error"
     /\ attempts' # attempts =>
          \E c \in Callers :
            /\ IsStart(c) /\ calls[c].pc = "insert"
            /\ calls'[c].pc = "done" /\ calls'[c].result.kind = "next"
            /\ attempts' = Append(attempts, calls'[c].result.value)
     /\ \A c \in Callers :
          (/\ IsStart(c) /\ calls[c].pc # "done" /\ calls'[c].pc = "done"
           /\ calls'[c].result.kind = "next") =>
            attempts' = Append(attempts, calls'[c].result.value)]_vars

\* an insert failed: the call ended with the store's error and the store
\* holds only the rows it held at the start
C7_Witness ==
  \E c \in Callers :
    /\ IsStart(c) /\ calls[c].pc = "done"
    /\ calls[c].result = Throw(InsertDownMsg)
    /\ \A i \in 1..Len(attempts) :
         attempts[i].created_at = MonthStart(StartInstant)

\* C8: when the store fails the count query, countUserAttemptsThisMonth
\* emits 0 and completes; no error of the count reaches its caller
C8_CountFailureDegradesToZero ==
  [][\A c \in Callers :
       CountResponse(c, FALSE) =>
         /\ calls[c].op = "countUserAttemptsThisMonth" =>
              calls'[c].pc = "done" /\ calls'[c].result = Emit(0)
         /\ CountVisible(calls'[c]) => CountSeen(calls'[c]) = 0
         /\ calls'[c].result # Throw(CountDownMsg)]_vars

\* a failed count read was emitted as 0 although the identity has attempts
\* this month
C8_Witness ==
  \E c \in Callers :
    /\ calls[c].op = "countUserAttemptsThisMonth" /\ calls[c].pc = "done"
    /\ calls[c].result = Emit(0) /\ calls[c].logged = CountDownMsg
    /\ calls[c].user # NULL
    /\ now = StartInstant
    /\ Usage(calls[c].user, toISOString(now)) > 0

\* C9: every identity-requiring operation called with no identity present
\* ends with the not-authenticated error and returns no value
C9_NoIdentityAlwaysFails ==
  \A c \in Callers :
    (calls[c].pc = "done" /\ calls[c].user = NULL) =>
      calls[c].result = Throw(NoUserMsg)

\* C10: getUserPlan for a profile whose plan_id names no plan ends with an
\* error and returns no result
C10_DanglingPlanFails ==
  \A c \in Callers :
    (/\ calls[c].op = "getUserPlan" /\ calls[c].pc = "done"
     /\ calls[c].user # NULL
     /\ profiles[calls[c].user] = DanglingPlanId) =>
      calls[c].result.kind = "Error"

\* the update of call c is answered in this step, for an attempt that exists
UpdateStep(c) ==
  /\ calls[c].op = "saveAttempt" /\ calls[c].pc = "update"
  /\ calls'[c].pc = "done"
  /\ calls[c].attemptId[1] \in 1..Len(attempts)
TargetOf(c) == attempts[calls[c].attemptId[1]]

\* C11: saveAttempt by the owner on an attempt whose status is no longer
\* in_progress ends with an error and leaves the attempt as it was
C11_TerminalAttemptNotResubmitted ==
  [][\A c \in Callers :
       (/\ UpdateStep(c) /\ UpdateResponse(c, TRUE)
        /\ TargetOf(c).user_id = calls[c].user
        /\ TargetOf(c).status # "in_progress")
       => /\ calls'[c].result.kind = "Error"
          /\ attempts' = attempts]_vars

\* C12: saveAttempt by an identity on an in_progress attempt of another
\* identity ends with an error and changes no attempt
C12_ForeignAttemptNotMutated ==
  [][\A c \in Callers :
       (/\ UpdateStep(c) /\ UpdateResponse(c, TRUE)
        /\ TargetOf(c).user_id # calls[c].user
        /\ TargetOf(c).status = "in_progress")
       => /\ calls'[c].result.kind = "Error"
          /\ attempts' = attempts]_vars

\* C13: completed_at of the update is the clock when saveAttempt is called;
\* a successful saveAttempt on an in_progress attempt sets status completed,
\* that completed_at, the answers and duration_seconds of the payload,
\* returns the row, and changes no other column and no other attempt
C13_SubmitFrame ==
  [][\A c \in Callers :
       /\ (calls[c].pc = "idle" /\ calls'[c].op = "saveAttempt") =>
            calls'[c].completed_at = Some(toISOString(now))
       /\ (/\ UpdateStep(c) /\ UpdateResponse(c, TRUE)
           /\ TargetOf(c).status = "in_progress") =>
            LET id  == calls[c].attemptId[1]
                old == attempts[id]
                new == attempts'[id]
            IN  /\ new.status = "completed"
                /\ new.completed_at = calls[c].completed_at
                /\ new.answers = calls[c].payload[1].answers
                /\ new.duration_seconds =
                     Some(calls[c].payload[1].duration_seconds)
                /\ new.score = old.score
                /\ new.id = old.id /\ new.user_id = old.user_id
                /\ new.simulation_id = old.simulation_id
                /\ new.started_at = old.started_at
                /\ new.created_at = old.created_at
                /\ Len(attempts') = Len(attempts)
                /\ \A j \in 1..Len(attempts) : j # id => attempts'[j] = attempts[j]
                /\ calls'[c].result = Emit(new)]_vars

\* an attempt created by startSimulation in December was submitted in January
C13_Witness ==
  \E c \in Callers :
    /\ calls[c].op = "saveAttempt" /\ calls[c].pc = "done"
    /\ calls[c].result.kind = "next"
    /\ LET row == calls[c].result.value
       IN  /\ attempts[row.id] = row
           /\ row.status = "completed" /\ row.answers = <<"a">>
           /\ row.duration_seconds = Some(30) /\ row.score = None
           /\ row.started_at = toISOString(StartInstant)
           /\ row.completed_at = Some(toISOString(StartInstant + 1))

\* the invariant of the Attempt rows
StatusMatchesCompletion ==
  \A i \in 1..Len(attempts) :
    attempts[i].status = "in_progress" <=>
      (attempts[i].completed_at = None /\ attempts[i].score = None)

\* C14: the attempt a successful startSimulation returns is the row it
\* stored, with status in_progress, started_at = the clock when the call
\* issued its insert, no answers, no completed_at and no score; and in every
\* state an attempt is in_progress exactly when it has neither completed_at
\* nor score
C14_NewAttemptShape ==
  /\ []StatusMatchesCompletion
  /\ [][\A c \in Callers :
          /\ (IsStart(c) /\ calls[c].pc # "insert" /\ calls'[c].pc = "insert")
               => calls'[c].started_at = Some(toISOString(now))
          /\ (IsStart(c) /\ InsertResponse(c, TRUE)) =>
               LET row == calls'[c].result.value
               IN  /\ calls'[c].result.kind = "next"
                   /\ attempts' = Append(attempts, row)
                   /\ row.status = "in_progress"
                   /\ row.started_at = calls[c].started_at[1]
                   /\ row.user_id = calls[c].user
                   /\ row.simulation_id = calls[c].sim
                   /\ row.answers = <<>>
                   /\ row.completed_at = None /\ row.score = None]_vars

\* startSimulation returned a new in_progress attempt while another attempt
\* of the store was completed by saveAttempt
C14_Witness ==
  \E c1, c2 \in Callers :
    /\ IsStart(c1) /\ Admitted(c1)
    /\ attempts[calls[c1].result.value.id] = calls[c1].result.value
    /\ calls[c1].result.value.status = "in_progress"
    /\ calls[c2].op = "saveAttempt" /\ calls[c2].pc = "done"
    /\ calls[c2].result.kind = "next"
    /\ attempts[calls[c2].result.value.id].status = "completed"

\* the logs of the subscriber
Last(seq)  == seq[Len(seq)]
Events     == stream[1].events
Identities == stream[1].identity
AuthFlags  == stream[1].auth

\* C15: every session event of the Directory is observed on the identity
\* stream in the step it is emitted, one observation per event, and every
\* value the store takes from the Directory (a live event or the result of
\* the initial getSession) is the session of the Directory's most recent
\* event, also when getSession completes after a live event
C15_EventsInOrderLatestWins ==
  [][/\ Len(Events') > Len(Events) =>
          /\ Len(Events') = Len(Events) + 1
          /\ Len(Identities') > Len(Identities)
          /\ Identities'[Len(Identities) + 1] = Last(Events')
     /\ ((GetSessionThen \/ \E s \in Users \cup {NULL} : AuthStateChange(s))
           /\ Events' # <<>>) =>
          /\ currentUser' = Last(Events')
          /\ Last(Identities') = Last(Events')]_vars

\* C16: while the Directory holds a valid persisted session that the store
\* has not loaded yet, authGuard does not answer "signed out": it lets the
\* navigation through
C16_GuardNeverSeesSignedOutBeforeLoad ==
  [][\A c \in Callers :
       (/\ AuthGuard(c)
        /\ bootstrap.pc # "done" /\ directory # NULL /\ Events = <<>>)
       => calls'[c].result = Emit(Activate)]_vars

\* isAuthenticated() is the projection of the identity stream, value by value
AuthIsProjection ==
  stream # None =>
    /\ Len(AuthFlags) = Len(Identities)
    /\ \A i \in 1..Len(Identities) : AuthFlags[i] = (Identities[i] # NULL)

C18_FailedFetchMeansAbsent ==
  [][/\ \A outcome \in {"error", "reject"} :
          GetSessionSettle(outcome) =>
            /\ currentUser' = currentUser
            /\ bootstrap'.data = NULL /\ bootstrap'.error # NoError
     /\ (GetSessionThen /\ bootstrap.error # NoError) =>
          currentUser' = NULL /\ Last(Identities') = NULL
     /\ \A s \in Users \cup {NULL} :
          AuthStateChange(s) =>
            currentUser' = s /\ Last(Identities') = s]_vars

\* the Directory held a session, getSession failed and the stream emitted
\* the empty identity, then a live sign-in was delivered
C18_Witness ==
  /\ bootstrap = [pc |-> "done", data |-> NULL, error |-> GetSessionDownMsg]
  /\ Identities = <<NULL, NULL, "u1">>
  /\ Events = <<"u1">>
  /\ currentUser = "u1" /\ directory = "u1"

\* the feature sets of the tiers, as the claims give them
TierFeatures(slug) ==
  CASE slug = "free" -> {}
    [] slug = "pro" -> {"certificates", "ranking"}
    [] slug = "enterprise" ->
         {"certificates", "ranking", "advanced_ai", "custom_tracks"}

\* planGuard of caller c completes in this step
GuardStep(c) ==
  calls[c].pc # "done" /\ calls'[c].pc = "done" /\ calls'[c].op = "planGuard"

\* C19: planGuard answers true exactly when the profile query is answered
\* with a plan whose tier has the required feature: free never, pro for
\* certificates and ranking
C19_AllowIffPlanHasFeature ==
  [][\A c \in Callers :
       /\ (GuardStep(c) /\ calls[c].pc = "idle") =>
            calls'[c].result # Emit(Activate)
       /\ \A ok \in BOOLEAN :
            (calls[c].op = "planGuard" /\ PlanResponse(c, ok)) =>
              (calls'[c].result = Emit(Activate) <=>
                 /\ ok
                 /\ profiles[calls[c].planUser] \in DOMAIN plans
                 /\ calls[c].feature \in
                      TierFeatures(plans[profiles[calls[c].planUser]].slug))]_vars

\* for the feature certificates the guard let the pro user through and sent
\* the free user to /plans
C19_Witness ==
  \E c1, c2 \in Callers :
    /\ calls[c1].op = "planGuard" /\ calls[c1].pc = "done"
    /\ calls[c1].feature = "certificates"
    /\ calls[c1].user # NULL
    /\ profiles[calls[c1].user] = ProPlanId
    /\ calls[c1].result = Emit(Activate)
    /\ calls[c2].op = "planGuard" /\ calls[c2].pc = "done"
    /\ calls[c2].feature = "certificates"
    /\ calls[c2].user # NULL
    /\ profiles[calls[c2].user] = FreePlanId
    /\ calls[c2].result = Emit(UrlTree("/plans"))

\* C20: planGuard always completes with true or a UrlTree, never with an
\* error; with no user, a failed profile query or no profile row it answers
\* the UrlTree /dashboard, and for a profile whose plan is missing it
\* answers a UrlTree
C20_GuardFailsClosed ==
  [][\A c \in Callers :
       /\ GuardStep(c) =>
            /\ calls'[c].result.kind = "next"
            /\ calls'[c].result.value \in
                 {Activate, UrlTree("/plans"), UrlTree("/dashboard")}
       /\ (GuardStep(c) /\ calls[c].pc = "idle") =>
            calls'[c].result = Emit(UrlTree("/dashboard"))
       /\ (calls[c].op = "planGuard" /\ PlanResponse(c, FALSE)) =>
            calls'[c].result = Emit(UrlTree("/dashboard"))
       /\ (/\ calls[c].op = "planGuard" /\ PlanResponse(c, TRUE)
           /\ profiles[calls[c].planUser] = NoProfile) =>
            calls'[c].result = Emit(UrlTree("/dashboard"))
       /\ (/\ calls[c].op = "planGuard" /\ PlanResponse(c, TRUE)
           /\ profiles[calls[c].planUser] = DanglingPlanId) =>
            calls'[c].result.value.activate = FALSE]_vars

\* one guard ran with nobody signed in, another while the profile query of a
\* user on the enterprise plan failed: both answered the UrlTree /dashboard
C20_Witness ==
  \E c1, c2 \in Callers :
    /\ calls[c1].op = "planGuard" /\ calls[c1].pc = "done"
    /\ calls[c1].user = NULL
    /\ calls[c1].result = Emit(UrlTree("/dashboard"))
    /\ calls[c2].op = "planGuard" /\ calls[c2].pc = "done"
    /\ calls[c2].user # NULL
    /\ profiles[calls[c2].user] = EnterprisePlanId
    /\ calls[c2].feature \in TierFeatures("enterprise")
    /\ calls[c2].result = Emit(UrlTree("/dashboard"))

\* C21: hasPlanFeature returns a boolean for every slug and feature key, and
\* false when the slug is none of free, pro, enterprise or the key is no
\* feature key
C21_HasPlanFeatureTotal ==
  \A c \in Callers :
    (calls[c].op = "hasPlanFeature" /\ calls[c].pc = "done") =>
      /\ calls[c].result.kind = "next"
      /\ calls[c].result.value \in BOOLEAN
      /\ (calls[c].slug \notin {"free", "pro", "enterprise"}
            \/ calls[c].feature \notin PlanFeature) =>
           calls[c].result.value = FALSE

RefreshStep(c) ==
  /\ calls[c].op = "refreshScoresAfterAttempt" \/ calls[c].pc = "idle"
  /\ calls[c].pc # "done"
  /\ calls'[c].op = "refreshScoresAfterAttempt"
  /\ calls'[c].pc = "done"

\* C22: however the recalculation request ends (rpc answered, rpc error, rpc
\* promise rejected, nobody signed in) the caller gets one value, undefined,
\* and no error, and the step changes no attempt
C22_RefreshNeverFails ==
  /\ [](\A c \in Callers :
          (calls[c].op = "refreshScoresAfterAttempt" /\ calls[c].pc = "done")
            => calls[c].result = Emit(Undefined))
  /\ [][\A c \in Callers : RefreshStep(c) => attempts' = attempts]_vars

C22_Witness ==
  \E c, d \in Callers :
    /\ calls[c].op = "refreshScoresAfterAttempt" /\ calls[c].pc = "done"
    /\ calls[c].logged = RpcRejectMsg
    /\ calls[d].op = "refreshScoresAfterAttempt" /\ calls[d].pc = "done"
    /\ calls[d].logged = NoUserMsg

Resolved(c) ==
  /\ calls[c].op = "getUserPlan"
  /\ calls[c].pc = "done"
  /\ calls[c].result.kind = "next"

\* C23: two resolutions of the plan of the same identity give the same
\* content, whatever was admitted, submitted or counted between them, while
\* nothing writes profiles or plans
C23_ResolveTwiceSame ==
  \A c, d \in Callers :
    (Resolved(c) /\ Resolved(d)
       /\ calls[c].result.value.id = calls[d].result.value.id)
      => calls[c].result.value = calls[d].result.value

C23_Witness ==
  \E c, d \in Callers :
    /\ c # d /\ Resolved(c) /\ Resolved(d)
    /\ calls[c].result.value.id = calls[d].result.value.id
    /\ \E i, j \in DOMAIN attempts :
         /\ attempts[i].user_id = calls[c].result.value.id
         /\ attempts[i].status = "in_progress"
         /\ attempts[j].user_id = calls[c].result.value.id
         /\ attempts[j].status = "completed"

\* C24: with startSimulation calls made one at a time, every count answered
\* and no status changed, the non-abandoned attempts of the current month of
\* an identity with a finite quota never exceed the quota
C24_SequentialWithinLimit ==
  \A u \in Users :
    (/\ profiles[u] \in DOMAIN plans
     /\ plans[profiles[u]].max_simulations_per_month # None)
      => Usage(u, toISOString(now))
           <= plans[profiles[u]].max_simulations_per_month[1]

\* C25: no saveAttempt, whatever the status of the attempt it is made on,
\* raises the number countUserAttemptsThisMonth reports for any identity
C25_SubmitNeverRaisesUsage ==
  [][\A c \in Callers :
       UpdateStep(c) =>
         \A u \in Users :
           Usage(u, toISOString(now))' <= Usage(u, toISOString(now))]_vars

\* startSimulation call c moves in this step and is not admitted by it
StartStepWithoutAdmit(c) ==
  /\ calls'[c] # calls[c]
  /\ calls'[c].op = "startSimulation"
  /\ ~(calls'[c].pc = "done" /\ calls'[c].result.kind = "next")

\* C26: a startSimulation that fails (nobody signed in, profile query failed,
\* no plan, quota exceeded) has written nothing: no step of a call other than
\* the store's answer to a successful insert changes the stored attempts
C26_FailedAdmitWritesNothing ==
  [][\A c \in Callers : StartStepWithoutAdmit(c) => attempts' = attempts]_vars

\* with stored attempts, one call was rejected for quota and the other failed
\* on its profile query
C26_Witness ==
  \E c, d \in Callers :
    /\ IsStart(c) /\ Rejected(c)
    /\ IsStart(d) /\ calls[d].pc = "done"
    /\ calls[d].result.kind = "Error"
    /\ calls[d].result.message = ProfilesDownMsg
    /\ Len(attempts) > 0

\* the insert of call c is answered in this step
InsertStep(c) ==
  /\ calls[c].op = "startSimulation" /\ calls[c].pc = "insert"
  /\ calls'[c].pc = "done"

\* C27: what an identity creates or submits never changes the number
\* countUserAttemptsThisMonth reports for another identity (and so never
\* changes whether that identity is admitted)
C27_QuotaIsolation ==
  [][\A c \in Callers, a \in Users :
       ((UpdateStep(c) \/ InsertStep(c)) /\ calls[c].user # a) =>
         Usage(a, toISOString(now))' = Usage(a, toISOString(now))]_vars

\* C28: between steps the identity AuthService holds is present exactly when
\* SupabaseService holds a session, and is then the user of that session,
\* after session events and after logout() with either outcome of signOut
C28_IdentityMirrorsSession ==
  /\ isAuthenticated(currentUser) <=> session # NULL
  /\ isAuthenticated(currentUser) => currentUser = session

\* the dashboard of call c was rendered
Rendered(c) ==
  /\ calls[c].op = "dashboard" /\ calls[c].pc = "done"
  /\ calls[c].result.value # None
ViewOf(c) == calls[c].result.value[1]

\* C29: the dashboard shows the unlimited label and 0% exactly when the plan
\* has no quota (the case in which startSimulation never rejects), for a
\* quota of none, 0 or more; and usagePercent is an integer of 0..100
C29_DashboardAgreesOnUnlimited ==
  \A c \in Callers :
    Rendered(c) =>
      /\ ViewOf(c).usagePercent \in 0..100
      /\ (ViewOf(c).usageLabel.of = None /\ ViewOf(c).usagePercent = 0)
           <=> ViewOf(c).profile.plan[1].max_simulations_per_month = None

\* C30: a step stores at most new rows and status changes: every stored
\* attempt keeps its place and id, a status that changes becomes completed,
\* and a row that appears is in_progress
C30_OnlyInProgressAndCompletedWritten ==
  [][/\ Len(attempts') >= Len(attempts)
     /\ \A i \in 1..Len(attempts) :
          /\ attempts'[i].id = attempts[i].id
          /\ attempts'[i].status # attempts[i].status =>
               attempts'[i].status = "completed"
     /\ \A i \in (Len(attempts) + 1)..Len(attempts') :
          /\ attempts'[i].id = i
          /\ attempts'[i].status = "in_progress"]_vars

\* one attempt was submitted with answers and another was created by a
\* startSimulation after the clock advanced
C30_Witness ==
  \E i, j \in 1..Len(attempts) :
    /\ attempts[i].status = "completed" /\ attempts[i].answers = <<"b">>
    /\ attempts[j].status = "in_progress"
    /\ attempts[j].created_at = toISOString(StartInstant + 1)
====
